---------------------------- MODULE Spec2Model ----------------------------
(***************************************************************************)
(* Model of frontend/app/windows/flutter/generated_plugin_registrant.cc.   *)
(*                                                                         *)
(* The file holds one function, RegisterPlugins(registry), made of six     *)
(* expression statements.  Statement k evaluates                           *)
(*     registry->GetRegistrarForPlugin("<name k>")                         *)
(* and passes the result to <entry point k>.  The registry and the plugin  *)
(* entry points are external: the model lets them return any handle, or    *)
(* not return at all (a fault that ends the process).                      *)
(*                                                                         *)
(* Control positions of RegisterPlugins (pc):                              *)
(*   "idle"      not inside RegisterPlugins                                *)
(*   "stmt"      at the start of statement i                               *)
(*   "in_get"    inside registry->GetRegistrarForPlugin of statement i     *)
(*   "have_arg"  the argument of statement i is evaluated                  *)
(*   "in_reg"    inside the entry point of statement i                     *)
(*   "ret"       at the closing brace                                      *)
(*   "fault"     the process has died                                      *)
(***************************************************************************)
EXTENDS Integers, Sequences, FiniteSets, TLC

VARIABLES
    pc,          \* control position of RegisterPlugins
    i,           \* index of the current statement (0 outside a call)
    registry,    \* the parameter `registry` of the current call
    arg,         \* the temporary holding GetRegistrarForPlugin's result
    trace,       \* history: external call/return events of the call in progress
    invoked,     \* history: invocations of each entry point, per registry
    completed,   \* history: completed calls of RegisterPlugins, per registry
    calls,       \* history: calls of RegisterPlugins made by the host
    registrars,  \* registry state: names a registrar was handed out for
    attached,    \* plugin state: entry points that attached themselves
    fault        \* where the failure that ended the process originated

vars == <<pc, i, registry, arg, trace, invoked, completed, calls,
          registrars, attached, fault>>

----------------------------------------------------------------------------
(* Bounds of the model *)

MaxCalls == 2        \* calls of RegisterPlugins the host makes
NumRegistries == 2   \* distinct registry objects the host owns
NumHandles == 1      \* distinct non-null registrar handles

----------------------------------------------------------------------------
(* Values *)

NullRegistry == 0    \* a null flutter::PluginRegistry*
NullHandle == 0      \* a null FlutterDesktopPluginRegistrarRef
NoRegistry == -1     \* no call in progress: the parameter does not exist
NoArg == -1          \* no temporary alive

Registries == 0..NumRegistries
Handles == 0..NumHandles

NoFault == "none"

\* The include directives: each header and the entry point it declares.
Includes ==
    << [header |-> "battery_plus/battery_plus_windows_plugin.h",
        declares |-> "BatteryPlusWindowsPluginRegisterWithRegistrar"],
       [header |-> "connectivity_plus/connectivity_plus_windows_plugin.h",
        declares |-> "ConnectivityPlusWindowsPluginRegisterWithRegistrar"],
       [header |-> "firebase_core/firebase_core_plugin_c_api.h",
        declares |-> "FirebaseCorePluginCApiRegisterWithRegistrar"],
       [header |-> "flutter_secure_storage_windows/flutter_secure_storage_windows_plugin.h",
        declares |-> "FlutterSecureStorageWindowsPluginRegisterWithRegistrar"],
       [header |-> "flutter_webrtc/flutter_web_r_t_c_plugin.h",
        declares |-> "FlutterWebRTCPluginRegisterWithRegistrar"],
       [header |-> "permission_handler_windows/permission_handler_windows_plugin.h",
        declares |-> "PermissionHandlerWindowsPluginRegisterWithRegistrar"] >>

\* Mutants of Calls: a statement lost, two statements exchanged, a name
\* copied from the statement above, a statement emitted twice.
CallsWithoutWebRTC ==
    << [entry |-> "BatteryPlusWindowsPluginRegisterWithRegistrar",
        name  |-> "BatteryPlusWindowsPlugin"],
       [entry |-> "ConnectivityPlusWindowsPluginRegisterWithRegistrar",
        name  |-> "ConnectivityPlusWindowsPlugin"],
       [entry |-> "FirebaseCorePluginCApiRegisterWithRegistrar",
        name  |-> "FirebaseCorePluginCApi"],
       [entry |-> "FlutterSecureStorageWindowsPluginRegisterWithRegistrar",
        name  |-> "FlutterSecureStorageWindowsPlugin"],
       [entry |-> "PermissionHandlerWindowsPluginRegisterWithRegistrar",
        name  |-> "PermissionHandlerWindowsPlugin"] >>

CallsFirebaseFirst ==
    << [entry |-> "BatteryPlusWindowsPluginRegisterWithRegistrar",
        name  |-> "BatteryPlusWindowsPlugin"],
       [entry |-> "FirebaseCorePluginCApiRegisterWithRegistrar",
        name  |-> "FirebaseCorePluginCApi"],
       [entry |-> "ConnectivityPlusWindowsPluginRegisterWithRegistrar",
        name  |-> "ConnectivityPlusWindowsPlugin"],
       [entry |-> "FlutterSecureStorageWindowsPluginRegisterWithRegistrar",
        name  |-> "FlutterSecureStorageWindowsPlugin"],
       [entry |-> "FlutterWebRTCPluginRegisterWithRegistrar",
        name  |-> "FlutterWebRTCPlugin"],
       [entry |-> "PermissionHandlerWindowsPluginRegisterWithRegistrar",
        name  |-> "PermissionHandlerWindowsPlugin"] >>

CallsCopiedName ==
    << [entry |-> "BatteryPlusWindowsPluginRegisterWithRegistrar",
        name  |-> "BatteryPlusWindowsPlugin"],
       [entry |-> "ConnectivityPlusWindowsPluginRegisterWithRegistrar",
        name  |-> "BatteryPlusWindowsPlugin"],
       [entry |-> "FirebaseCorePluginCApiRegisterWithRegistrar",
        name  |-> "FirebaseCorePluginCApi"],
       [entry |-> "FlutterSecureStorageWindowsPluginRegisterWithRegistrar",
        name  |-> "FlutterSecureStorageWindowsPlugin"],
       [entry |-> "FlutterWebRTCPluginRegisterWithRegistrar",
        name  |-> "FlutterWebRTCPlugin"],
       [entry |-> "PermissionHandlerWindowsPluginRegisterWithRegistrar",
        name  |-> "PermissionHandlerWindowsPlugin"] >>

CallsBatteryTwice ==
    << [entry |-> "BatteryPlusWindowsPluginRegisterWithRegistrar",
        name  |-> "BatteryPlusWindowsPlugin"],
       [entry |-> "BatteryPlusWindowsPluginRegisterWithRegistrar",
        name  |-> "BatteryPlusWindowsPlugin"],
       [entry |-> "ConnectivityPlusWindowsPluginRegisterWithRegistrar",
        name  |-> "ConnectivityPlusWindowsPlugin"],
       [entry |-> "FirebaseCorePluginCApiRegisterWithRegistrar",
        name  |-> "FirebaseCorePluginCApi"],
       [entry |-> "FlutterSecureStorageWindowsPluginRegisterWithRegistrar",
        name  |-> "FlutterSecureStorageWindowsPlugin"],
       [entry |-> "FlutterWebRTCPluginRegisterWithRegistrar",
        name  |-> "FlutterWebRTCPlugin"],
       [entry |-> "PermissionHandlerWindowsPluginRegisterWithRegistrar",
        name  |-> "PermissionHandlerWindowsPlugin"] >>

\* The statements of RegisterPlugins' body, in textual order: the entry
\* point called and the name its registrar is requested under.
Calls ==
    << [entry |-> "BatteryPlusWindowsPluginRegisterWithRegistrar",
        name  |-> "BatteryPlusWindowsPlugin"],
       [entry |-> "ConnectivityPlusWindowsPluginRegisterWithRegistrar",
        name  |-> "ConnectivityPlusWindowsPlugin"],
       [entry |-> "FirebaseCorePluginCApiRegisterWithRegistrar",
        name  |-> "FirebaseCorePluginCApi"],
       [entry |-> "FlutterSecureStorageWindowsPluginRegisterWithRegistrar",
        name  |-> "FlutterSecureStorageWindowsPlugin"],
       [entry |-> "FlutterWebRTCPluginRegisterWithRegistrar",
        name  |-> "FlutterWebRTCPlugin"],
       [entry |-> "PermissionHandlerWindowsPluginRegisterWithRegistrar",
        name  |-> "PermissionHandlerWindowsPlugin"] >>

Range(s) == { s[k] : k \in DOMAIN s }

\* Every entry point the translation unit knows.
Entries == { r.declares : r \in Range(Includes) } \cup { c.entry : c \in Range(Calls) }

Event(ev, who, reg, h) == [ev |-> ev, who |-> who, reg |-> reg, h |-> h]

----------------------------------------------------------------------------
(* Initial state: the process has started, RegisterPlugins was not called *)

Init ==
    /\ pc = "idle"
    /\ i = 0
    /\ registry = NoRegistry
    /\ arg = NoArg
    /\ trace = << >>
    /\ invoked = [r \in Registries |-> [e \in Entries |-> 0]]
    /\ completed = [r \in Registries |-> 0]
    /\ calls = 0
    /\ registrars = [r \in Registries |-> {}]
    /\ attached = {}
    /\ fault = NoFault

----------------------------------------------------------------------------
(* The host calls RegisterPlugins(r).  Nothing in the function limits how  *)
(* often, or with which pointer, it is called.                             *)

HostCall ==
    \E r \in Registries :
        /\ pc = "idle"
        /\ calls < MaxCalls
        /\ calls' = calls + 1
        /\ registry' = r
        /\ i' = 1
        /\ pc' = "stmt"
        /\ UNCHANGED <<arg, trace, invoked, completed, registrars, attached, fault>>


----------------------------------------------------------------------------
(* Statement i, first half: registry->GetRegistrarForPlugin(Calls[i].name) *)

\* The member call is made on the parameter, whatever it is: nothing tests
\* it.  On a null pointer the call is undefined; one outcome is that the
\* callee is entered with a null `this`.
CallGetRegistrar ==
    /\ pc = "stmt"
    /\ pc' = "in_get"
    /\ trace' = Append(trace, Event("get_call", Calls[i].name, registry, NoArg))
    /\ UNCHANGED <<i, registry, arg, invoked, completed, calls,
                   registrars, attached, fault>>

\* The other outcome of the member call on a null pointer: the dereference
\* itself faults (a virtual call reads the object's vtable), at line 18 of
\* this file, before any external code runs.
NullRegistryFault ==
    /\ pc = "stmt"
    /\ registry = NullRegistry
    /\ pc' = "fault"
    /\ fault' = "RegisterPlugins"
    /\ UNCHANGED <<i, registry, arg, trace, invoked, completed, calls,
                   registrars, attached>>

\* External: the registry hands out a handle of its choosing, null included.
ReturnGetRegistrar ==
    \E h \in Handles :
        /\ pc = "in_get"
        /\ pc' = "have_arg"
        /\ arg' = h
        /\ registrars' = IF registry = NullRegistry
                         THEN registrars
                         ELSE [registrars EXCEPT ![registry] = @ \cup {Calls[i].name}]
        /\ trace' = Append(trace, Event("get_ret", Calls[i].name, registry, h))
        /\ UNCHANGED <<i, registry, invoked, completed, calls, attached, fault>>

\* External: GetRegistrarForPlugin does not return.
FaultGetRegistrar ==
    /\ pc = "in_get"
    /\ pc' = "fault"
    /\ fault' = "registry"
    /\ UNCHANGED <<i, registry, arg, trace, invoked, completed, calls,
                   registrars, attached>>

----------------------------------------------------------------------------
(* Statement i, second half: Calls[i].entry(<the handle just obtained>)    *)

\* Mutant: the handle is asserted to be non-null before it is passed on.
CallRegisterAssertHandle ==
    /\ pc = "have_arg"
    /\ IF arg = NullHandle
       THEN /\ pc' = "fault"
            /\ fault' = "RegisterPlugins"
            /\ UNCHANGED <<trace, invoked>>
       ELSE /\ pc' = "in_reg"
            /\ invoked' = [invoked EXCEPT ![registry][Calls[i].entry] = @ + 1]
            /\ trace' = Append(trace, Event("reg_call", Calls[i].entry, registry, arg))
            /\ UNCHANGED fault
    /\ UNCHANGED <<i, registry, arg, completed, calls, registrars, attached>>

\* Mutant: a plugin whose handle is null is skipped.
CallRegisterSkipNull ==
    /\ pc = "have_arg"
    /\ IF arg = NullHandle
       THEN /\ pc' = IF i = Len(Calls) THEN "ret" ELSE "stmt"
            /\ i' = i + 1
            /\ arg' = NoArg
            /\ UNCHANGED <<trace, invoked>>
       ELSE /\ pc' = "in_reg"
            /\ invoked' = [invoked EXCEPT ![registry][Calls[i].entry] = @ + 1]
            /\ trace' = Append(trace, Event("reg_call", Calls[i].entry, registry, arg))
            /\ UNCHANGED <<i, arg>>
    /\ UNCHANGED <<registry, completed, calls, registrars, attached, fault>>

\* Mutant: a null handle is requested again, once more per statement at most.
CallRegisterRequery ==
    /\ pc = "have_arg"
    /\ IF arg = NullHandle /\ Len(trace) <= 4 * i - 2
       THEN /\ pc' = "in_get"
            /\ arg' = NoArg
            /\ trace' = Append(trace, Event("get_call", Calls[i].name, registry, NoArg))
            /\ UNCHANGED invoked
       ELSE /\ pc' = "in_reg"
            /\ invoked' = [invoked EXCEPT ![registry][Calls[i].entry] = @ + 1]
            /\ trace' = Append(trace, Event("reg_call", Calls[i].entry, registry, arg))
            /\ UNCHANGED arg
    /\ UNCHANGED <<i, registry, completed, calls, registrars, attached, fault>>

\* Mutant: a plugin that is already attached is not registered again.
CallRegisterSkipAttached ==
    /\ pc = "have_arg"
    /\ IF Calls[i].entry \in attached
       THEN /\ pc' = IF i = Len(Calls) THEN "ret" ELSE "stmt"
            /\ i' = i + 1
            /\ arg' = NoArg
            /\ UNCHANGED <<trace, invoked>>
       ELSE /\ pc' = "in_reg"
            /\ invoked' = [invoked EXCEPT ![registry][Calls[i].entry] = @ + 1]
            /\ trace' = Append(trace, Event("reg_call", Calls[i].entry, registry, arg))
            /\ UNCHANGED <<i, arg>>
    /\ UNCHANGED <<registry, completed, calls, registrars, attached, fault>>

\* The entry point of statement i is called with the temporary, unexamined.
CallRegister ==
    /\ pc = "have_arg"
    /\ pc' = "in_reg"
    /\ invoked' = [invoked EXCEPT ![registry][Calls[i].entry] = @ + 1]
    /\ trace' = Append(trace, Event("reg_call", Calls[i].entry, registry, arg))
    /\ UNCHANGED <<i, registry, arg, completed, calls, registrars, attached, fault>>

\* Mutant: the handle outlives the statement it was obtained in.
ReturnRegisterKeepsHandle ==
    /\ pc = "in_reg"
    /\ attached' = attached \cup {Calls[i].entry}
    /\ trace' = Append(trace, Event("reg_ret", Calls[i].entry, registry, NoArg))
    /\ i' = i + 1
    /\ pc' = IF i = Len(Calls) THEN "ret" ELSE "stmt"
    /\ UNCHANGED <<registry, arg, invoked, completed, calls, registrars, fault>>

\* External: the plugin's routine attaches the plugin and returns.  Its
\* return value (void) cannot be examined; the full expression ends, the
\* temporary dies, and control falls to the next statement.
ReturnRegister ==
    /\ pc = "in_reg"
    /\ attached' = attached \cup {Calls[i].entry}
    /\ trace' = Append(trace, Event("reg_ret", Calls[i].entry, registry, NoArg))
    /\ arg' = NoArg
    /\ i' = i + 1
    /\ pc' = IF i = Len(Calls) THEN "ret" ELSE "stmt"
    /\ UNCHANGED <<registry, invoked, completed, calls, registrars, fault>>

\* External: the plugin's routine does not return.
FaultRegister ==
    /\ pc = "in_reg"
    /\ pc' = "fault"
    /\ fault' = "plugin"
    /\ UNCHANGED <<i, registry, arg, trace, invoked, completed, calls,
                   registrars, attached>>

----------------------------------------------------------------------------
(* The closing brace: RegisterPlugins returns to the host *)

Return ==
    /\ pc = "ret"
    /\ pc' = "idle"
    /\ completed' = [completed EXCEPT ![registry] = @ + 1]
    /\ registry' = NoRegistry
    /\ i' = 0
    /\ trace' = << >>
    /\ UNCHANGED <<arg, invoked, calls, registrars, attached, fault>>

----------------------------------------------------------------------------

Next ==
    \/ HostCall
    \/ CallGetRegistrar
    \/ NullRegistryFault
    \/ ReturnGetRegistrar
    \/ FaultGetRegistrar
    \/ CallRegister
    \/ ReturnRegister
    \/ FaultRegister
    \/ Return

Spec == Init /\ [][Next]_vars

\* The function is straight-line code on one thread: it takes its next step
\* whenever it can.  An external call that can return does return.
FairSpec ==
    /\ Spec
    /\ WF_vars(CallGetRegistrar)
    /\ WF_vars(CallRegister)
    /\ WF_vars(Return)
    /\ WF_vars(ReturnGetRegistrar)
    /\ WF_vars(ReturnRegister)


----------------------------------------------------------------------------
(* Vocabulary of the properties *)

\* The fixed plugin set, in the order the properties speak of, with the
\* registration entry point of each plugin.
FixedSet ==
    << [plugin |-> "BatteryPlusWindowsPlugin",
        entry  |-> "BatteryPlusWindowsPluginRegisterWithRegistrar"],
       [plugin |-> "ConnectivityPlusWindowsPlugin",
        entry  |-> "ConnectivityPlusWindowsPluginRegisterWithRegistrar"],
       [plugin |-> "FirebaseCorePluginCApi",
        entry  |-> "FirebaseCorePluginCApiRegisterWithRegistrar"],
       [plugin |-> "FlutterSecureStorageWindowsPlugin",
        entry  |-> "FlutterSecureStorageWindowsPluginRegisterWithRegistrar"],
       [plugin |-> "FlutterWebRTCPlugin",
        entry  |-> "FlutterWebRTCPluginRegisterWithRegistrar"],
       [plugin |-> "PermissionHandlerWindowsPlugin",
        entry  |-> "PermissionHandlerWindowsPluginRegisterWithRegistrar"] >>

Positions(ev) == { k \in DOMAIN trace : trace[k].ev = ev }
Count(ev) == Cardinality(Positions(ev))
TimesCalled(e) ==
    Cardinality({ k \in Positions("reg_call") : trace[k].who = e })

\* The call in progress has reached the closing brace.
RanToCompletion == pc = "ret"

----------------------------------------------------------------------------
\* C1: a call of RegisterPlugins that runs to completion has invoked the
\* registration entry point of each of the six plugins of the fixed set
\* exactly once and no other entry point, and the entry points the included
\* headers declare and the entry points called correspond one to one.
C1_EachPluginRegisteredOnce ==
    /\ RanToCompletion =>
          /\ \A p \in Range(FixedSet) : TimesCalled(p.entry) = 1
          /\ \A k \in Positions("reg_call") :
                \E p \in Range(FixedSet) : trace[k].who = p.entry
    /\ Len(Includes) = Len(Calls)
    /\ Cardinality({ r.header : r \in Range(Includes) }) = Len(Includes)
    /\ Cardinality({ c.entry : c \in Range(Calls) }) = Len(Calls)
    /\ { r.declares : r \in Range(Includes) } = { c.entry : c \in Range(Calls) }

C1_Witness ==
    /\ RanToCompletion
    /\ registry = 1
    /\ Count("reg_call") = 6

----------------------------------------------------------------------------
\* C2: whenever an entry point is invoked, the handle it receives is the
\* handle GetRegistrarForPlugin has just returned, on the registry given to
\* RegisterPlugins, for the request made under that plugin's own name; the
\* six requested names are pairwise distinct.
C2_HandleRequestedUnderOwnName ==
    /\ \A k \in Positions("reg_call") :
          /\ k >= 3
          /\ trace[k-1].ev = "get_ret"
          /\ trace[k-1].h = trace[k].h
          /\ trace[k-1].reg = registry
          /\ trace[k-2].ev = "get_call"
          /\ trace[k-2].reg = registry
          /\ trace[k-2].who = trace[k-1].who
          /\ \E p \in Range(FixedSet) :
                /\ p.entry = trace[k].who
                /\ p.plugin = trace[k-2].who
    /\ Cardinality({ c.name : c \in Range(Calls) }) = 6

C2_Witness ==
    /\ pc = "in_reg"
    /\ i = 2
    /\ registry = 2
    /\ arg = 1
    /\ trace[Len(trace)].who = "ConnectivityPlusWindowsPluginRegisterWithRegistrar"

----------------------------------------------------------------------------
\* C3: the registrations happen in the fixed order BatteryPlus,
\* ConnectivityPlus, FirebaseCore, FlutterSecureStorage, FlutterWebRTC,
\* PermissionHandler, and a registration starts only after the preceding
\* one has returned: no two registrations are open at once.
C3_FixedOrderNoOverlap ==
    LET rc == SelectSeq(trace, LAMBDA e : e.ev = "reg_call")
        rr == SelectSeq(trace, LAMBDA e : e.ev = "reg_ret")
    IN  /\ Len(rc) <= Len(FixedSet)
        /\ \A k \in DOMAIN rc : rc[k].who = FixedSet[k].entry
        /\ \A k \in DOMAIN rr : rr[k].who = FixedSet[k].entry
        /\ Len(rc) - Len(rr) \in {0, 1}
        /\ \A a, b \in Positions("reg_call") :
              a < b => \E c \in Positions("reg_ret") :
                          a < c /\ c < b /\ trace[c].who = trace[a].who

C3_Witness ==
    /\ pc = "in_reg"
    /\ i = 6
    /\ Count("reg_call") = 6
    /\ Count("reg_ret") = 5


----------------------------------------------------------------------------
\* C4 as stated: for every registry value the host may supply, a null
\* pointer included, no failure originates in RegisterPlugins itself.
C4_NoErrorOriginatesHere ==
    fault # "RegisterPlugins"

\* C4 (amended): for every non-null registry the host supplies, no failure
\* originates in RegisterPlugins itself; a failure of such a run originates
\* in the registry's GetRegistrarForPlugin or in a plugin's routine.
C4_NoErrorOnNonNullRegistry ==
    registry # NullRegistry =>
        /\ fault # "RegisterPlugins"
        /\ pc = "fault" => fault \in {"registry", "plugin"}

C4_Witness ==
    /\ pc = "fault"
    /\ registry = 1
    /\ fault = "plugin"
    /\ i = 3
    /\ arg = NullHandle

----------------------------------------------------------------------------
\* C5: RegisterPlugins never branches on a result.  Once the registrar
\* request of statement i returns, its entry point is invoked with the
\* handle returned, null or not; once that entry point returns, control is
\* at statement i+1 (at the closing brace after the last), so no statement
\* is skipped and none is run again.
C5_NoBranchingOnResults ==
    [][ /\ (pc = "stmt" /\ pc' \notin {"stmt", "fault"}) =>
              /\ pc' = "in_get"
              /\ i' = i
        /\ (pc = "in_get" /\ pc' \notin {"in_get", "fault"}) =>
              /\ pc' = "have_arg"
              /\ i' = i
        /\ (pc = "have_arg" /\ pc' # "have_arg") =>
              /\ pc' = "in_reg"
              /\ i' = i
              /\ i \in DOMAIN FixedSet
              /\ trace' = Append(trace,
                     Event("reg_call", FixedSet[i].entry, registry, arg))
        /\ (pc = "in_reg" /\ pc' \notin {"in_reg", "fault"}) =>
              /\ i' = i + 1
              /\ pc' = IF i = Len(FixedSet) THEN "ret" ELSE "stmt"
      ]_vars

C5_Witness ==
    /\ pc = "in_get"
    /\ i = 2
    /\ Len(trace) = 5
    /\ trace[2].ev = "get_ret"
    /\ trace[2].h = NullHandle
    /\ trace[3].ev = "reg_call"
    /\ trace[3].h = NullHandle

----------------------------------------------------------------------------
\* C6: RegisterPlugins keeps no state and owns no resource.  The registry's
\* state changes only inside GetRegistrarForPlugin and the plugins' state
\* only inside their routines; the handle obtained in a statement is passed
\* to that statement's one registration call and is gone when the statement
\* ends (it is not stored, and nothing hands it back to the registry);
\* nothing of a call survives its return.
C6_OwnsNothingKeepsNothing ==
    [][ /\ registrars' # registrars => pc = "in_get"
        /\ attached' # attached => pc = "in_reg"
        /\ \A r \in Registries : registrars[r] \subseteq registrars'[r]
        /\ pc' \in {"idle", "stmt", "in_get", "ret"} => arg' = NoArg
        /\ pc' = "in_reg" =>
              /\ arg' = trace'[Len(trace')].h
              /\ \A k \in 1..(Len(trace') - 2) :
                    trace'[k].ev = "get_ret" => trace'[k+1].ev = "reg_call"
        /\ pc' = "idle" => (i' = 0 /\ registry' = NoRegistry)
      ]_vars

C6_Witness ==
    /\ pc = "stmt"
    /\ i = 3
    /\ arg = NoArg
    /\ registry = 1
    /\ Cardinality(registrars[1]) = 2
    /\ Cardinality(attached) = 2

----------------------------------------------------------------------------
\* C7: the registry is queried once per statement, right before that
\* statement's registration call: the external events of a call are
\* request, its return, registration, its return, for plugin 1, then the
\* same for plugin 2, and so on; a completed call made six requests.
EventAt(k) ==
    LET s == ((k - 1) \div 4) + 1
        m == (k - 1) % 4
    IN  [ev  |-> <<"get_call", "get_ret", "reg_call", "reg_ret">>[m + 1],
         who |-> IF m < 2 THEN FixedSet[s].plugin ELSE FixedSet[s].entry]

C7_LazyAlternatingRequests ==
    /\ Len(trace) <= 4 * Len(FixedSet)
    /\ \A k \in DOMAIN trace :
          /\ trace[k].ev = EventAt(k).ev
          /\ trace[k].who = EventAt(k).who
    /\ RanToCompletion => (Count("get_call") = 6 /\ Count("get_ret") = 6)

C7_Witness ==
    /\ pc = "in_get"
    /\ i = 4
    /\ Len(trace) = 13
    /\ trace[13].who = "FlutterSecureStorageWindowsPlugin"

----------------------------------------------------------------------------
\* C8: a call of RegisterPlugins makes at most twelve external calls, has
\* made exactly twelve (six registrar requests, six registrations) when it
\* reaches its closing brace, and, every external call returning, does
\* reach it: a call that has started ends or the process has faulted in a
\* call that did not return.
ExternalCalls == Count("get_call") + Count("reg_call")

----------------------------------------------------------------------------
\* C9: nothing in RegisterPlugins limits it to one run.  Whenever the host
\* is between calls it can call again, and after n completed calls on a
\* registry each of the six entry points has been invoked n times with a
\* handle of that registry, the registry having been asked for a registrar
\* under each plugin's name.
C9_NoGuardAgainstRepetition ==
    /\ (pc = "idle" /\ calls < MaxCalls) => ENABLED HostCall
    /\ pc = "idle" =>
          \A r \in Registries :
             /\ \A p \in Range(FixedSet) : invoked[r][p.entry] = completed[r]
             /\ (r # NullRegistry /\ completed[r] > 0) =>
                   registrars[r] = { p.plugin : p \in Range(FixedSet) }
    /\ pc \in {"stmt", "in_get", "have_arg", "in_reg", "ret"} =>
          \A k \in DOMAIN FixedSet :
             invoked[registry][FixedSet[k].entry] =
                completed[registry] + TimesCalled(FixedSet[k].entry)

C9_Witness ==
    /\ pc = "idle"
    /\ completed[1] = 2
    /\ \A p \in Range(FixedSet) : invoked[1][p.entry] = 2

============================================================================
